---- MODULE Spec2Model ----
(***************************************************************************)
(* Model of the HighFinesse WS6/WS7 wavelength meter binding               *)
(* (src/src/high_finesse.py).  The state is the state of the vendor        *)
(* backend the binding talks to, the facade object, and a record of the    *)
(* last facade operation: which operation, the backend calls it issued in  *)
(* order, and its outcome (return value, raised error or warning).         *)
(***************************************************************************)
EXTENDS Integers, Sequences, FiniteSets

VARIABLES
    wlmCount,      \* backend: number of running measurement servers
    opState,       \* backend: integer operation state code
    switcherMode,  \* backend: switcher mode on/off
    useFlag,       \* backend: per channel "use" switcher signal state
    showFlag,      \* backend: per channel "show" switcher signal state
    expMode,       \* backend: per channel automatic exposure mode
    expTime,       \* backend: per channel, per CCD array exposure time (ms)
    freq,          \* backend: per channel frequency reading
    wl,            \* backend: per channel wavelength reading
    wlm,           \* facade object: "none", "ok" (constructed), "failed"
    op,            \* last facade operation [name, i, arg]
    calls,         \* backend calls issued by the last operation, in order
    result,        \* outcome of the last operation [kind, val]
    budget,        \* operations the session may still perform
    pc,            \* position of a use/show setter running step by step
    loc,           \* locals of that setter [ch, value, show]
    interfered     \* an external actor acted since that setter began

vars == <<wlmCount, opState, switcherMode, useFlag, showFlag, expMode, expTime,
          freq, wl, wlm, op, calls, result, budget, pc, loc, interfered>>

backend == <<wlmCount, opState, switcherMode, useFlag, showFlag, expMode,
             expTime, freq, wl>>

stepper == <<pc, loc, interfered>>

----------------------------------------------------------------------------
(* Bounds *)

MaxOps == 2          \* operations of a session after construction
MaxServers == 1      \* server counts 0..MaxServers
MaxLen == 3          \* exposure lists of length 0..MaxLen
MaxOut == 1          \* channel indices tried beyond each end of 0..7
MaxReading == 1      \* backend reading series 0..MaxReading

----------------------------------------------------------------------------
(* Program constants *)

NumChannels == 8

\* wlmConst operation state codes
cStop == 0
cAdjustment == 1
cMeasurement == 2

\* values a caller may pass that are not OperationState members
RawInts == {cStop, cAdjustment, cMeasurement, 42}

\* codes the backend may report: the three known ones and an undefined one
BackendCodes == {cStop, cAdjustment, cMeasurement, 99}

BackendChannels == 1..NumChannels

\* vendor error value returned for a channel that is not available
ErrNotAvailable == 0 - 10

BoolToInt(b) == IF b THEN 1 ELSE 0

IntToBool(n) == n # 0

----------------------------------------------------------------------------
(* Outcomes *)

Ok(v) == [kind |-> "ok", val |-> v]

Raise(e) == [kind |-> "error", val |-> e]

Warn(m) == [kind |-> "warning", val |-> m]

None == "None"

IsError(r) == r.kind = "error"

----------------------------------------------------------------------------
(* Backend: the calls of the vendor library the binding uses *)

Call(fn, args) == [fn |-> fn, args |-> args]

PerChannelFns == {"GetExposureModeNum", "SetExposureModeNum", "GetExposureNum",
                  "SetExposureNum", "GetFrequencyNum", "GetWavelengthNum",
                  "GetSwitcherSignalStates", "SetSwitcherSignalStates"}

GetWLMCount == wlmCount

GetOperationState == opState

Operation(code) == IF code \in {cStop, cAdjustment, cMeasurement} THEN code ELSE opState

GetSwitcherMode == BoolToInt(switcherMode)

SetSwitcherMode(v) == IntToBool(v)

GetSwitcherSignalStates(ch) ==
    IF ch \in BackendChannels
    THEN <<BoolToInt(useFlag[ch]), BoolToInt(showFlag[ch])>>
    ELSE <<0, 0>>

\* the backend ignores the command unless switcher mode is on
SetSwitcherSignalStatesUse(ch, u, s) ==
    IF ch \in BackendChannels /\ switcherMode
    THEN [useFlag EXCEPT ![ch] = IntToBool(u)]
    ELSE useFlag

SetSwitcherSignalStatesShow(ch, u, s) ==
    IF ch \in BackendChannels /\ switcherMode
    THEN [showFlag EXCEPT ![ch] = IntToBool(s)]
    ELSE showFlag

GetExposureModeNum(ch) ==
    IF ch \in BackendChannels THEN BoolToInt(expMode[ch]) ELSE 0

SetExposureModeNum(ch, v) ==
    IF ch \in BackendChannels THEN [expMode EXCEPT ![ch] = IntToBool(v)] ELSE expMode

GetExposureNum(e, ch, arr) ==
    IF ch \in BackendChannels /\ arr \in 1..2 THEN e[ch][arr] ELSE ErrNotAvailable

SetExposureNum(e, ch, arr, v) ==
    IF ch \in BackendChannels /\ arr \in 1..2 THEN [e EXCEPT ![ch][arr] = v] ELSE e

GetFrequencyNum(ch) == IF ch \in BackendChannels THEN freq[ch] ELSE ErrNotAvailable

GetWavelengthNum(ch) == IF ch \in BackendChannels THEN wl[ch] ELSE ErrNotAvailable

\* readings of measurement series r: distinct on every channel
Reading(base, r) == [ch \in BackendChannels |-> base + 10 * r + ch]

----------------------------------------------------------------------------
(* Facade objects *)

\* WavelengthMeter.OperationState
OperationState == {"adjustment", "measurement", "stop"}

OperationStateValue(m) ==
    IF m = "adjustment" THEN cAdjustment
    ELSE IF m = "measurement" THEN cMeasurement
    ELSE cStop

\* a lookup that falls back to stop for a code it does not know
OperationStateOfDefault(code) ==
    IF \E m \in OperationState : OperationStateValue(m) = code
    THEN Ok(CHOOSE m \in OperationState : OperationStateValue(m) = code)
    ELSE Ok("stop")

\* OperationState(code): lookup of the member by value
OperationStateOf(code) ==
    IF \E m \in OperationState : OperationStateValue(m) = code
    THEN Ok(CHOOSE m \in OperationState : OperationStateValue(m) = code)
    ELSE Raise("ValueError")

\* Channel.__init__ keeping the pythonic index
ChannelNoOffset(parent, idx) ==
    IF parent # "WavelengthMeter"
    THEN Raise("TypeError")
    ELSE Ok([idx |-> idx])

\* Channel.__init__
Channel(parent, idx) ==
    IF parent # "WavelengthMeter"
    THEN Raise("TypeError")
    ELSE Ok([idx |-> idx + 1])

\* range(9): one channel too many
ChannelRangeNine == 0..NumChannels

\* range(8) handed to ProxyList by WavelengthMeter.channel
ChannelRange == 0..(NumChannels - 1)

\* ProxyList.__getitem__
ProxyListGetItem(parent, valid, idx) ==
    IF idx \notin valid THEN Raise("IndexError") ELSE Channel(parent, idx)

\* wlm.channel[i]
ChannelAt(i) == ProxyListGetItem("WavelengthMeter", ChannelRange, i)

IndexInputs == (0 - MaxOut)..(NumChannels - 1 + MaxOut)

\* the logical indices at which the caller holds a Channel
Channels == {i \in IndexInputs : ~IsError(ChannelAt(i))}

----------------------------------------------------------------------------
(* Initial states *)

BackendAt(count, code, mode, u, s, r) ==
    /\ wlmCount = count
    /\ opState = code
    /\ switcherMode = mode
    /\ useFlag = [ch \in BackendChannels |-> u]
    /\ showFlag = [ch \in BackendChannels |-> s]
    /\ expMode = [ch \in BackendChannels |-> TRUE]
    /\ expTime = [ch \in BackendChannels |-> <<10, 10>>]
    /\ freq = Reading(300, r)
    /\ wl = Reading(800, r)

InitFacade ==
    /\ wlm = "none"
    /\ op = [name |-> "none", i |-> 0, arg |-> None]
    /\ calls = <<>>
    /\ result = Ok(None)
    /\ pc = "idle"
    /\ loc = [ch |-> 0, value |-> FALSE, show |-> FALSE]
    /\ interfered = FALSE

    /\ budget = MaxOps

\* any server count, everything else of the backend in its power-on state
Init ==
    /\ \E count \in 0..MaxServers : BackendAt(count, cStop, FALSE, FALSE, FALSE, 0)
    /\ InitFacade

\* a running server whose switcher mode and signal states are anything
InitSwitcher ==
    /\ \E mode \in BOOLEAN, u \in BOOLEAN, s \in BOOLEAN :
          BackendAt(1, cStop, mode, u, s, 0)
    /\ InitFacade

\* a running server reporting any operation state code, in either switcher mode
InitDevice ==
    /\ \E code \in BackendCodes, mode \in BOOLEAN :
          BackendAt(1, code, mode, FALSE, FALSE, 0)
    /\ InitFacade

\* a running server holding any of the reading series
InitReadings ==
    /\ \E r \in 0..MaxReading : BackendAt(1, cMeasurement, FALSE, FALSE, FALSE, r)
    /\ InitFacade

----------------------------------------------------------------------------
(* Operations *)

Ready == wlm = "ok" /\ budget > 0 /\ pc = "idle"

Done(name, i, arg, cs, res) ==
    /\ op' = [name |-> name, i |-> i, arg |-> arg]
    /\ calls' = cs
    /\ result' = res
    /\ budget' = budget - 1
    /\ UNCHANGED <<wlm, stepper>>

\* a check that only rejects a negative count
NoServerNegative == GetWLMCount < 0

\* self._dll.GetWLMCount(0) == 0
NoServer == GetWLMCount = 0

\* WavelengthMeter.__init__
Construct ==
    /\ wlm = "none"
    /\ op' = [name |-> "__init__", i |-> 0, arg |-> None]
    /\ calls' = <<Call("GetWLMCount", <<0>>)>>
    /\ IF NoServer
       THEN wlm' = "failed" /\ result' = Raise("IOError")
       ELSE wlm' = "ok" /\ result' = Ok(None)
    /\ UNCHANGED <<backend, budget, stepper>>

\* WavelengthMeter.channel[i]
ChannelGetItem ==
    /\ Ready
    /\ \E i \in IndexInputs :
          Done("channel", i, None, <<>>, ChannelAt(i))
    /\ UNCHANGED backend

\* backend index held by the Channel obtained as channel[i]
Idx(i) == ChannelAt(i).val.idx

\* Channel.auto_exposure (getter)
AutoExposureGet ==
    /\ Ready
    /\ \E i \in Channels :
          Done("auto_exposure.get", i, None,
               <<Call("GetExposureModeNum", <<Idx(i), 1>>)>>,
               Ok(IntToBool(GetExposureModeNum(Idx(i)))))
    /\ UNCHANGED backend

\* Channel.auto_exposure (setter)
AutoExposureSet ==
    /\ Ready
    /\ \E i \in Channels, value \in BOOLEAN :
          /\ Done("auto_exposure.set", i, value,
                  <<Call("SetExposureModeNum", <<Idx(i), BoolToInt(value)>>)>>,
                  Ok(None))
          /\ expMode' = SetExposureModeNum(Idx(i), BoolToInt(value))
    /\ UNCHANGED <<wlmCount, opState, switcherMode, useFlag, showFlag, expTime, freq, wl>>

\* Channel.exposure (getter)
ExposureGet ==
    /\ Ready
    /\ \E i \in Channels :
          Done("exposure.get", i, None,
               <<Call("GetExposureNum", <<Idx(i), 1, 0>>),
                 Call("GetExposureNum", <<Idx(i), 2, 0>>)>>,
               Ok(<<GetExposureNum(expTime, Idx(i), 1),
                    GetExposureNum(expTime, Idx(i), 2)>>))
    /\ UNCHANGED backend

\* exposure times (ms) a caller assigns
ExposureValues == {10, 20}

RECURSIVE ListsOfLen(_)
ListsOfLen(n) ==
    IF n = 0 THEN {<<>>}
    ELSE {Append(s, x) : s \in ListsOfLen(n - 1), x \in ExposureValues}

\* what a caller may assign to exposure: a bare value or a list
ExposureInputs ==
    {[isList |-> FALSE, bare |-> x, items |-> <<>>] : x \in ExposureValues}
    \cup {[isList |-> TRUE, bare |-> 0, items |-> s] :
             s \in UNION {ListsOfLen(n) : n \in 0..MaxLen}}

\* if not isinstance(value, list): value = [value]
AsList(value) == IF ~value.isList THEN <<value.bare>> ELSE value.items

\* a check that forgets the upper limit
ExposureLenOkNoUpper(value) == 1 <= Len(value)

\* 1 <= len(value) <= 2
ExposureLenOk(value) == 1 <= Len(value) /\ Len(value) <= 2

\* the SetExposureNum calls of the setter, in order
ExposureSetCalls(idx, value) ==
    <<Call("SetExposureNum", <<idx, 1, value[1]>>)>>
    \o (IF Len(value) = 2
        THEN <<Call("SetExposureNum", <<idx, 2, value[2]>>)>>
        ELSE <<>>)

\* the backend's exposure times after it served the calls cs in order
RECURSIVE ApplyExposureCalls(_, _)
ApplyExposureCalls(e, cs) ==
    IF cs = <<>> THEN e
    ELSE ApplyExposureCalls(
            SetExposureNum(e, Head(cs).args[1], Head(cs).args[2], Head(cs).args[3]),
            Tail(cs))

\* Channel.exposure (setter)
ExposureSet ==
    /\ Ready
    /\ \E i \in Channels, input \in ExposureInputs :
          LET value == AsList(input) IN
          IF ~ExposureLenOk(value)
          THEN /\ Done("exposure.set", i, input, <<>>, Raise("ValueError"))
               /\ UNCHANGED expTime
          ELSE /\ Done("exposure.set", i, input, ExposureSetCalls(Idx(i), value), Ok(None))
               /\ expTime' = ApplyExposureCalls(expTime, ExposureSetCalls(Idx(i), value))
    /\ UNCHANGED <<wlmCount, opState, switcherMode, useFlag, showFlag, expMode, freq, wl>>

\* Channel.frequency
FrequencyGet ==
    /\ Ready
    /\ \E i \in Channels :
          Done("frequency.get", i, None,
               <<Call("GetFrequencyNum", <<Idx(i), 0>>)>>,
               Ok(GetFrequencyNum(Idx(i))))
    /\ UNCHANGED backend

\* Channel.wavelength
WavelengthGet ==
    /\ Ready
    /\ \E i \in Channels :
          Done("wavelength.get", i, None,
               <<Call("GetWavelengthNum", <<Idx(i), 0>>)>>,
               Ok(GetWavelengthNum(Idx(i))))
    /\ UNCHANGED backend

\* list(range(1, 9)): the backend's numbering used as logical indices
AllIndicesOneBased == [k \in 1..NumChannels |-> k]

\* list(range(8)): the logical indices the aggregate getters walk, in order
AllIndices == [k \in 1..NumChannels |-> k - 1]

\* position of the first index of AllIndices the channel collection rejects
FirstBad ==
    IF \E k \in DOMAIN AllIndices : IsError(ChannelAt(AllIndices[k]))
    THEN CHOOSE k \in DOMAIN AllIndices :
            /\ IsError(ChannelAt(AllIndices[k]))
            /\ \A j \in 1..(k - 1) : ~IsError(ChannelAt(AllIndices[j]))
    ELSE Len(AllIndices) + 1

\* [self.channel[it].<reading> for it in range(8)]: the calls, in order
ReadAllCalls(fn) ==
    [k \in 1..(FirstBad - 1) |-> Call(fn, <<Idx(AllIndices[k]), 0>>)]

\* the reading the backend function fn returns for channel ch
BackendRead(fn, ch) ==
    IF fn = "GetFrequencyNum" THEN GetFrequencyNum(ch) ELSE GetWavelengthNum(ch)

\* [self.channel[it].<reading> for it in range(8)]: the list, or the error raised
ReadAllResult(fn) ==
    IF FirstBad <= Len(AllIndices)
    THEN ChannelAt(AllIndices[FirstBad])
    ELSE Ok([k \in 1..Len(AllIndices) |-> BackendRead(fn, Idx(AllIndices[k]))])

\* WavelengthMeter.frequencies
Frequencies ==
    /\ Ready
    /\ Done("frequencies", 0, None, ReadAllCalls("GetFrequencyNum"),
            ReadAllResult("GetFrequencyNum"))
    /\ UNCHANGED backend

\* WavelengthMeter.wavelengths
Wavelengths ==
    /\ Ready
    /\ Done("wavelengths", 0, None, ReadAllCalls("GetWavelengthNum"),
            ReadAllResult("GetWavelengthNum"))
    /\ UNCHANGED backend

\* a new measurement replaces the readings of every channel
BackendMeasure ==
    /\ Ready
    /\ \E r \in 0..MaxReading :
          /\ freq' = Reading(300, r)
          /\ wl' = Reading(800, r)
          /\ Done("measure", 0, r, <<>>, Ok(None))
    /\ UNCHANGED <<wlmCount, opState, switcherMode, useFlag, showFlag, expMode, expTime>>

\* a check that lets every value through
IsOperationStateAny(value) == TRUE

\* isinstance(value, self.OperationState)
IsOperationState(value) == value.type = "OperationState"

\* what a caller may assign to operation: a member or a raw integer
OperationInputs ==
    {[type |-> "OperationState", member |-> m, int |-> 0] : m \in OperationState}
    \cup {[type |-> "int", member |-> "", int |-> n] : n \in RawInts}

\* value.value
ValueOf(value) ==
    IF value.type = "OperationState" THEN OperationStateValue(value.member) ELSE value.int

\* WavelengthMeter.operation (getter)
OperationGet ==
    /\ Ready
    /\ Done("operation.get", 0, None, <<Call("GetOperationState", <<0>>)>>,
            OperationStateOf(GetOperationState))
    /\ UNCHANGED backend

\* WavelengthMeter.operation (setter)
OperationSet ==
    /\ Ready
    /\ \E value \in OperationInputs :
          IF ~IsOperationState(value)
          THEN /\ Done("operation.set", 0, value, <<>>, Raise("TypeError"))
               /\ UNCHANGED opState
          ELSE /\ Done("operation.set", 0, value,
                       <<Call("Operation", <<ValueOf(value)>>)>>, Ok(None))
               /\ opState' = Operation(ValueOf(value))
    /\ UNCHANGED <<wlmCount, switcherMode, useFlag, showFlag, expMode, expTime, freq, wl>>

\* the device or the vendor application changes the operation state by itself
BackendReport ==
    /\ Ready
    /\ \E code \in BackendCodes :
          /\ opState' = code
          /\ Done("report", 0, code, <<>>, Ok(None))
    /\ UNCHANGED <<wlmCount, switcherMode, useFlag, showFlag, expMode, expTime, freq, wl>>

\* a gate that is always open
switcher_modeAlways == TRUE

\* WavelengthMeter.switcher_mode (getter), as a value
switcher_mode == IntToBool(GetSwitcherMode)

SwitcherModeGet ==
    /\ Ready
    /\ Done("switcher_mode.get", 0, None, <<Call("GetSwitcherMode", <<0>>)>>,
            Ok(switcher_mode))
    /\ UNCHANGED backend

\* WavelengthMeter.switcher_mode (setter)
SwitcherModeSet ==
    /\ Ready
    /\ \E value \in BOOLEAN :
          /\ Done("switcher_mode.set", 0, value,
                  <<Call("SetSwitcherMode", <<BoolToInt(value)>>)>>, Ok(None))
          /\ switcherMode' = SetSwitcherMode(BoolToInt(value))
    /\ UNCHANGED <<wlmCount, opState, useFlag, showFlag, expMode, expTime, freq, wl>>

\* a show getter that returns the use flag
show_channelFromUse(idx) == IntToBool(GetSwitcherSignalStates(idx)[1])

\* Channel.show_channel (getter), as a value: bool(show_flag)
show_channel(idx) == IntToBool(GetSwitcherSignalStates(idx)[2])

\* Channel.use_channel (getter), as a value: bool(use_flag)
use_channel(idx) == IntToBool(GetSwitcherSignalStates(idx)[1])

\* arguments of the set command issued by the show_channel setter
ShowSetArgs(idx, value) == <<idx, 1, BoolToInt(value)>>

\* a use setter that switches the display on, as the show setter does for use
UseSetArgsShowOn(idx, value, show) == <<idx, BoolToInt(value), 1>>

\* arguments of the set command issued by the use_channel setter
UseSetArgs(idx, value, show) == <<idx, BoolToInt(value), BoolToInt(show)>>

NotActive == "Switcher mode not active"

ShowChannelGet ==
    /\ Ready
    /\ \E i \in Channels :
          Done("show_channel.get", i, None,
               <<Call("GetSwitcherSignalStates", <<Idx(i)>>)>>,
               Ok(show_channel(Idx(i))))
    /\ UNCHANGED backend

UseChannelGet ==
    /\ Ready
    /\ \E i \in Channels :
          Done("use_channel.get", i, None,
               <<Call("GetSwitcherSignalStates", <<Idx(i)>>)>>,
               Ok(use_channel(Idx(i))))
    /\ UNCHANGED backend

\* Channel.show_channel (setter)
ShowChannelSet ==
    /\ Ready
    /\ \E i \in Channels, value \in BOOLEAN :
          IF switcher_mode
          THEN LET a == ShowSetArgs(Idx(i), value) IN
               /\ Done("show_channel.set", i, value,
                       <<Call("GetSwitcherMode", <<0>>),
                         Call("SetSwitcherSignalStates", a)>>, Ok(None))
               /\ useFlag' = SetSwitcherSignalStatesUse(a[1], a[2], a[3])
               /\ showFlag' = SetSwitcherSignalStatesShow(a[1], a[2], a[3])
          ELSE /\ Done("show_channel.set", i, value,
                       <<Call("GetSwitcherMode", <<0>>)>>, Warn(NotActive))
               /\ UNCHANGED <<useFlag, showFlag>>
    /\ UNCHANGED <<wlmCount, opState, switcherMode, expMode, expTime, freq, wl>>

\* Channel.use_channel (setter)
UseChannelSet ==
    /\ Ready
    /\ \E i \in Channels, value \in BOOLEAN :
          IF switcher_mode
          THEN LET a == UseSetArgs(Idx(i), value, show_channel(Idx(i))) IN
               /\ Done("use_channel.set", i, value,
                       <<Call("GetSwitcherMode", <<0>>),
                         Call("GetSwitcherSignalStates", <<Idx(i)>>),
                         Call("SetSwitcherSignalStates", a)>>, Ok(None))
               /\ useFlag' = SetSwitcherSignalStatesUse(a[1], a[2], a[3])
               /\ showFlag' = SetSwitcherSignalStatesShow(a[1], a[2], a[3])
          ELSE /\ Done("use_channel.set", i, value,
                       <<Call("GetSwitcherMode", <<0>>)>>, Warn(NotActive))
               /\ UNCHANGED <<useFlag, showFlag>>
    /\ UNCHANGED <<wlmCount, opState, switcherMode, expMode, expTime, freq, wl>>

----------------------------------------------------------------------------
(* The use_channel and show_channel setters one backend call at a time,     *)
(* with an external actor (the vendor application) acting in between.       *)

Running == wlm = "ok" /\ pc # "idle"

Step(cs, res) ==
    /\ calls' = cs
    /\ result' = res
    /\ UNCHANGED <<wlm, op, budget, interfered>>

Pending == [kind |-> "running", val |-> None]

\* use_channel setter, line 199: read the switcher mode
UseSetBegin ==
    /\ Ready
    /\ \E i \in Channels, value \in BOOLEAN :
          /\ op' = [name |-> "use_channel.set", i |-> i, arg |-> value]
          /\ calls' = <<Call("GetSwitcherMode", <<0>>)>>
          /\ loc' = [ch |-> Idx(i), value |-> value, show |-> FALSE]
    /\ IF switcher_mode
       THEN pc' = "use_read" /\ result' = Pending
       ELSE pc' = "idle" /\ result' = Warn(NotActive)
    /\ budget' = budget - 1
    /\ interfered' = FALSE
    /\ UNCHANGED <<backend, wlm>>

\* use_channel setter, line 201: read the show flag
UseSetReadShow ==
    /\ Running
    /\ pc = "use_read"
    /\ loc' = [loc EXCEPT !.show = show_channel(loc.ch)]
    /\ pc' = "use_write"
    /\ Step(Append(calls, Call("GetSwitcherSignalStates", <<loc.ch>>)), Pending)
    /\ UNCHANGED backend

\* use_channel setter, lines 200-202: issue the set command
UseSetWrite ==
    /\ Running
    /\ pc = "use_write"
    /\ LET a == UseSetArgs(loc.ch, loc.value, loc.show) IN
          /\ useFlag' = SetSwitcherSignalStatesUse(a[1], a[2], a[3])
          /\ showFlag' = SetSwitcherSignalStatesShow(a[1], a[2], a[3])
          /\ Step(Append(calls, Call("SetSwitcherSignalStates", a)), Ok(None))
    /\ pc' = "idle"
    /\ UNCHANGED <<wlmCount, opState, switcherMode, expMode, expTime, freq, wl, loc>>

\* show_channel setter, line 166: read the switcher mode
ShowSetBegin ==
    /\ Ready
    /\ \E i \in Channels, value \in BOOLEAN :
          /\ op' = [name |-> "show_channel.set", i |-> i, arg |-> value]
          /\ calls' = <<Call("GetSwitcherMode", <<0>>)>>
          /\ loc' = [ch |-> Idx(i), value |-> value, show |-> FALSE]
    /\ IF switcher_mode
       THEN pc' = "show_write" /\ result' = Pending
       ELSE pc' = "idle" /\ result' = Warn(NotActive)
    /\ budget' = budget - 1
    /\ interfered' = FALSE
    /\ UNCHANGED <<backend, wlm>>

\* show_channel setter, line 167: issue the set command
ShowSetWrite ==
    /\ Running
    /\ pc = "show_write"
    /\ LET a == ShowSetArgs(loc.ch, loc.value) IN
          /\ useFlag' = SetSwitcherSignalStatesUse(a[1], a[2], a[3])
          /\ showFlag' = SetSwitcherSignalStatesShow(a[1], a[2], a[3])
          /\ Step(Append(calls, Call("SetSwitcherSignalStates", a)), Ok(None))
    /\ pc' = "idle"
    /\ UNCHANGED <<wlmCount, opState, switcherMode, expMode, expTime, freq, wl, loc>>

\* the external actor switches the switcher mode
ExternalSwitcherMode ==
    /\ wlm = "ok"
    /\ budget > 0
    /\ \E v \in BOOLEAN : switcherMode' = SetSwitcherMode(BoolToInt(v))
    /\ budget' = budget - 1
    /\ interfered' = (pc # "idle")
    /\ UNCHANGED <<wlmCount, opState, useFlag, showFlag, expMode, expTime, freq, wl,
                   wlm, op, calls, result, pc, loc>>

\* the external actor sets the signal states of a channel
ExternalSignalStates ==
    /\ wlm = "ok"
    /\ budget > 0
    /\ \E ch \in BackendChannels, u \in 0..1, s \in 0..1 :
          /\ useFlag' = SetSwitcherSignalStatesUse(ch, u, s)
          /\ showFlag' = SetSwitcherSignalStatesShow(ch, u, s)
    /\ budget' = budget - 1
    /\ interfered' = (pc # "idle")
    /\ UNCHANGED <<wlmCount, opState, switcherMode, expMode, expTime, freq, wl,
                   wlm, op, calls, result, pc, loc>>

----------------------------------------------------------------------------
(* Specifications *)

\* a session using every operation of the facade
Next ==
    \/ Construct
    \/ ChannelGetItem
    \/ AutoExposureGet
    \/ AutoExposureSet
    \/ ExposureGet
    \/ ExposureSet
    \/ FrequencyGet
    \/ WavelengthGet
    \/ ShowChannelGet
    \/ ShowChannelSet
    \/ UseChannelGet
    \/ UseChannelSet
    \/ Frequencies
    \/ Wavelengths
    \/ OperationGet
    \/ OperationSet
    \/ SwitcherModeGet
    \/ SwitcherModeSet

Spec == Init /\ [][Next]_vars

\* a session on the switcher: its mode and the channels' use/show flags
NextSwitcher ==
    \/ Construct
    \/ SwitcherModeGet
    \/ SwitcherModeSet
    \/ ShowChannelGet
    \/ ShowChannelSet
    \/ UseChannelGet
    \/ UseChannelSet

SpecSwitcher == InitSwitcher /\ [][NextSwitcher]_vars

\* a session on the exposure controls
NextExposure ==
    \/ Construct
    \/ AutoExposureGet
    \/ AutoExposureSet
    \/ ExposureGet
    \/ ExposureSet

SpecExposure == Init /\ [][NextExposure]_vars

\* a session on the device-wide properties; the device may change its
\* operation state by itself
NextDevice ==
    \/ Construct
    \/ OperationGet
    \/ OperationSet
    \/ BackendReport
    \/ SwitcherModeGet
    \/ SwitcherModeSet

SpecDevice == InitDevice /\ [][NextDevice]_vars

\* a session reading frequencies and wavelengths while the device measures
NextReadings ==
    \/ Construct
    \/ ChannelGetItem
    \/ FrequencyGet
    \/ WavelengthGet
    \/ Frequencies
    \/ Wavelengths
    \/ BackendMeasure

SpecReadings == InitReadings /\ [][NextReadings]_vars

\* the use/show setters call by call, interleaved with the external actor
NextInterleaved ==
    \/ Construct
    \/ UseSetBegin
    \/ UseSetReadShow
    \/ UseSetWrite
    \/ ShowSetBegin
    \/ ShowSetWrite
    \/ ExternalSwitcherMode
    \/ ExternalSignalStates

SpecInterleaved == InitSwitcher /\ [][NextInterleaved]_vars

----------------------------------------------------------------------------
(* Properties *)

\* the step is a facade operation beginning (every operation spends budget)
OpStep == budget' < budget

ChannelOps == {"auto_exposure.get", "auto_exposure.set", "exposure.get",
               "exposure.set", "frequency.get", "wavelength.get",
               "use_channel.get", "use_channel.set", "show_channel.get",
               "show_channel.set"}

FlagSetters == {"use_channel.set", "show_channel.set"}

IssuesSet(cs) == \E k \in 1..Len(cs) : cs[k].fn = "SetSwitcherSignalStates"

\* C1 as stated: with switcher mode on, each of the two setters leaves the
\* other flag of its channel as it was before the call.
C1_PreservesOther ==
    [][(OpStep /\ switcherMode) =>
         /\ op'.name = "use_channel.set" =>
               showFlag'[op'.i + 1] = showFlag[op'.i + 1]
         /\ op'.name = "show_channel.set" =>
               useFlag'[op'.i + 1] = useFlag[op'.i + 1]]_vars

\* C1 amended: with switcher mode on, use_channel = v sets the channel's use
\* flag to v and leaves its show flag as it was; show_channel = v sets the
\* show flag to v and the use flag to true whatever it was; the flags of
\* every other channel stay as they were.
C1_UsePreservesShow ==
    [][(OpStep /\ switcherMode /\ op'.name \in FlagSetters) =>
         /\ op'.name = "use_channel.set" =>
               /\ showFlag'[op'.i + 1] = showFlag[op'.i + 1]
               /\ useFlag'[op'.i + 1] = op'.arg
         /\ op'.name = "show_channel.set" =>
               /\ showFlag'[op'.i + 1] = op'.arg
               /\ useFlag'[op'.i + 1] = TRUE
         /\ \A ch \in BackendChannels \ {op'.i + 1} :
               useFlag'[ch] = useFlag[ch] /\ showFlag'[ch] = showFlag[ch]]_vars

\* use_channel = False went through on a channel that is shown: still shown
C1_Witness ==
    /\ op.name = "use_channel.set"
    /\ op.arg = FALSE
    /\ result.kind = "ok"
    /\ IssuesSet(calls)
    /\ showFlag[op.i + 1]
    /\ ~useFlag[op.i + 1]

\* C2: every per-channel backend call carries an index in 1..8, the calls of
\* an operation of channel[i] carry i + 1, and channel[i] holds i + 1.
C2_IndexMapping ==
    /\ \A k \in 1..Len(calls) :
          calls[k].fn \in PerChannelFns =>
             /\ calls[k].args[1] \in 1..8
             /\ op.name \in ChannelOps => calls[k].args[1] = op.i + 1
    /\ (op.name \in ChannelOps /\ result.kind # "error") => calls # <<>>
    /\ (op.name = "channel" /\ result.kind = "ok") => result.val.idx = op.i + 1

\* the last channel was written through: the call went to backend index 8
C2_Witness ==
    /\ op.name = "exposure.set"
    /\ op.i = 7
    /\ result.kind = "ok"
    /\ calls[1] = Call("SetExposureNum", <<8, 1, 20>>)
    /\ expTime[8][1] = 20

\* C3: with switcher mode off, a use_channel or show_channel assignment ends
\* in a warning, issues no set command and leaves every channel's flags.
C3_OffWarnsNoEffect ==
    [][(OpStep /\ ~switcherMode /\ op'.name \in FlagSetters) =>
         /\ result' = Warn(NotActive)
         /\ ~IssuesSet(calls')
         /\ useFlag' = useFlag
         /\ showFlag' = showFlag]_vars

\* show_channel = True was assigned with switcher mode off: warned, not shown
C3_Witness ==
    /\ op.name = "show_channel.set"
    /\ op.arg = TRUE
    /\ ~switcherMode
    /\ result.kind = "warning"
    /\ ~showFlag[op.i + 1]

\* number of values assigned: 1 for a bare value, the length for a list
NumValues(input) == IF input.isList THEN Len(input.items) ELSE 1

FirstValue(input) == IF input.isList THEN input.items[1] ELSE input.bare

\* C4: an exposure assignment of 0 or of 3 and more values raises ValueError
\* with no set command and both arrays unchanged; one value sets array 1 and
\* keeps array 2; two values set array 1 and array 2; other channels keep
\* their exposure.
C4_ExposureLength ==
    [][(OpStep /\ op'.name = "exposure.set") =>
         LET n == NumValues(op'.arg)
             ch == op'.i + 1
         IN
         /\ (n = 0 \/ n >= 3) =>
               /\ result' = Raise("ValueError")
               /\ calls' = <<>>
               /\ expTime' = expTime
         /\ n = 1 =>
               /\ result'.kind = "ok"
               /\ expTime'[ch][1] = FirstValue(op'.arg)
               /\ expTime'[ch][2] = expTime[ch][2]
         /\ n = 2 =>
               /\ result'.kind = "ok"
               /\ expTime'[ch] = op'.arg.items
         /\ \A c \in BackendChannels \ {ch} : expTime'[c] = expTime[c]]_vars

\* three values were refused on a channel whose array 1 alone had been set
C4_Witness ==
    /\ op.name = "exposure.set"
    /\ NumValues(op.arg) = 3
    /\ result = Raise("ValueError")
    /\ expTime[op.i + 1] = <<20, 10>>

CodeOf(member) ==
    CASE member = "stop" -> cStop
      [] member = "adjustment" -> cAdjustment
      [] member = "measurement" -> cMeasurement

\* C5: assigning operation a value that is no OperationState member raises
\* TypeError with no backend call and the operation state unchanged;
\* assigning a member issues exactly the Operation command with its code,
\* from every current state.
C5_OperationSet ==
    [][(OpStep /\ op'.name = "operation.set") =>
         /\ op'.arg.type # "OperationState" =>
               /\ result' = Raise("TypeError")
               /\ calls' = <<>>
               /\ opState' = opState
         /\ op'.arg.type = "OperationState" =>
               /\ result'.kind = "ok"
               /\ calls' = <<Call("Operation", <<CodeOf(op'.arg.member)>>)>>
               /\ opState' = CodeOf(op'.arg.member)]_vars

\* the raw integer of the measurement code was refused; the device is stopped
C5_Witness ==
    /\ op.name = "operation.set"
    /\ op.arg.type = "int"
    /\ op.arg.int = cMeasurement
    /\ result = Raise("TypeError")
    /\ opState = cStop

\* C6: reading operation returns the member whose code the backend reports,
\* and raises ValueError when the backend reports a code of no member.
C6_OperationGet ==
    op.name = "operation.get" =>
       /\ calls = <<Call("GetOperationState", <<0>>)>>
       /\ opState \in {cStop, cAdjustment, cMeasurement} =>
             /\ result.kind = "ok"
             /\ result.val \in OperationState
             /\ CodeOf(result.val) = opState
       /\ opState \notin {cStop, cAdjustment, cMeasurement} =>
             result = Raise("ValueError")

\* the backend reports 99 and the getter raised
C6_Witness ==
    /\ op.name = "operation.get"
    /\ opState = 99
    /\ result.kind = "error"

\* C7: construction against zero servers raises IOError after one
\* GetWLMCount call, leaves no facade and nothing follows it; against any
\* other count it succeeds.
C7_Construction ==
    /\ wlm = "failed" =>
          /\ wlmCount = 0
          /\ op.name = "__init__"
          /\ result = Raise("IOError")
          /\ calls = <<Call("GetWLMCount", <<0>>)>>
          /\ budget = MaxOps
    /\ wlm = "ok" => wlmCount # 0
    /\ wlm = "none" => op.name = "none" /\ calls = <<>>
    /\ (op.name = "__init__" /\ wlmCount # 0) => wlm = "ok" /\ result.kind = "ok"
    /\ op.name # "none" => wlm # "none"

\* construction failed
C7_Witness ==
    /\ wlm = "failed"
    /\ wlmCount = 0
    /\ result.kind = "error"

\* C8: frequencies and wavelengths return 8 entries, entry i being the
\* backend's reading of channel i + 1, which is what channel[i].frequency
\* and channel[i].wavelength return; they query channels 1..8 in that order
\* and change nothing in the backend.
C8_Aggregates ==
    [][OpStep =>
         /\ op'.name = "frequencies" =>
               /\ result'.kind = "ok"
               /\ Len(result'.val) = 8
               /\ \A i \in 0..7 : result'.val[i + 1] = freq[i + 1]
               /\ calls' = [k \in 1..8 |-> Call("GetFrequencyNum", <<k, 0>>)]
               /\ backend' = backend
         /\ op'.name = "wavelengths" =>
               /\ result'.kind = "ok"
               /\ Len(result'.val) = 8
               /\ \A i \in 0..7 : result'.val[i + 1] = wl[i + 1]
               /\ calls' = [k \in 1..8 |-> Call("GetWavelengthNum", <<k, 0>>)]
               /\ backend' = backend
         /\ op'.name = "frequency.get" => result' = Ok(freq[op'.i + 1])
         /\ op'.name = "wavelength.get" => result' = Ok(wl[op'.i + 1])]_vars

\* all frequencies were read after the device measured a new series
C8_Witness ==
    /\ op.name = "frequencies"
    /\ result.kind = "ok"
    /\ freq = Reading(300, 1)
    /\ result.val[1] = 311
    /\ result.val[8] = 318

\* C9: channel[i] raises IndexError for i outside 0..7 and yields the
\* Channel of backend index i + 1, within 1..8, for i in 0..7; every
\* channel operation runs on a Channel of a logical index in 0..7.
C9_IndexRange ==
    /\ op.name = "channel" =>
          /\ calls = <<>>
          /\ op.i \notin 0..7 => result = Raise("IndexError")
          /\ op.i \in 0..7 =>
                /\ result.kind = "ok"
                /\ result.val.idx = op.i + 1
                /\ result.val.idx \in 1..8
    /\ op.name \in ChannelOps => op.i \in 0..7

\* channel[8] was refused
C9_Witness ==
    /\ op.name = "channel"
    /\ op.i = 8
    /\ result = Raise("IndexError")

\* the step issues the setter's set command
WriteStep == pc \in {"use_write", "show_write"} /\ pc' = "idle"

LastCall(cs) == cs[Len(cs)]

\* C10 as stated: under any interleaving with the external actor, the set
\* command is issued only while switcher mode is on at that moment, and the
\* show value the use_channel setter writes is the channel's show value at
\* that moment.
C10_NeverSilent ==
    [][WriteStep =>
         /\ switcherMode
         /\ pc = "use_write" =>
               LastCall(calls').args[3] = BoolToInt(showFlag[LastCall(calls').args[1]])]_vars

\* C10 amended: when the external actor has not acted since the setter read
\* the switcher mode, the set command is issued while switcher mode is on
\* and the use_channel setter writes the channel's show value of that
\* moment; a setter that ends without issuing the set command has warned.
C10_SilentOnlyIfInterfered ==
    [][/\ (WriteStep /\ ~interfered) =>
             /\ switcherMode
             /\ LastCall(calls').fn = "SetSwitcherSignalStates"
             /\ pc = "use_write" =>
                   LastCall(calls').args[3] =
                      BoolToInt(showFlag[LastCall(calls').args[1]])
       /\ (pc' = "idle" /\ op'.name \in FlagSetters /\ ~IssuesSet(calls')) =>
             result' = Warn(NotActive)]_vars

\* use_channel = False ran to its end undisturbed on a shown channel
C10_Witness ==
    /\ pc = "idle"
    /\ op.name = "use_channel.set"
    /\ op.arg = FALSE
    /\ result.kind = "ok"
    /\ ~interfered
    /\ Len(calls) = 3
    /\ showFlag[loc.ch]
    /\ ~useFlag[loc.ch]

====
